---- MODULE Spec2Model ----
(***************************************************************************)
(* ReactLoadableSSRAddon (react-loadable-ssr-addon 0.1.3): the webpack     *)
(* plugin that derives the assets manifest from a compilation.             *)
(*                                                                         *)
(* JavaScript values are modelled as follows.                              *)
(*   - an optional value (x | undefined) is a sequence of length 0 or 1;   *)
(*   - a Map key is [num, s]: num says whether the value is a number, s is *)
(*     its text. Two Map keys are the same key iff the records are equal   *)
(*     (SameValueZero); as an object property name only s counts, since    *)
(*     origins[key] converts the key to a string;                          *)
(*   - an array that is shared by reference lives in heap, and the places  *)
(*     that hold it hold its address.                                      *)
(***************************************************************************)
EXTENDS Integers, Sequences, FiniteSets, TLC

\* ------------------------------------------------------------------ bounds
MaxId == 1
MaxModules == 2
MaxReasons == 2
MaxChunks == 2
MaxSiblings == 2
MaxBuilds == 2
MaxWatchSiblings == 0

\* ----------------------------------------------------------- JS primitives
None == <<>>
Some(x) == <<x>>
IsSome(m) == Len(m) = 1
Get(m) == m[1]

Range(s) == {s[i] : i \in 1..Len(s)}

SeqsUpTo(S, n) == UNION {[1..k -> S] : k \in 0..n}

NoDup(s) == \A i, j \in 1..Len(s) : s[i] = s[j] => i = j

\* Number.prototype.toString for the chunk ids of the model.
NumStr(n) == CASE n = 0 -> "0" [] n = 1 -> "1" [] n = 2 -> "2" [] n = 3 -> "3"
               [] n = 4 -> "4" [] OTHER -> "5"

NumKey(n) == [num |-> TRUE, s |-> NumStr(n)]
StrKey(str) == [num |-> FALSE, s |-> str]

\* ToBoolean of a string | undefined value, as `||` applies it.
Truthy(m) == IsSome(m) /\ Get(m) # ""

\* array[i] of JavaScript, 0-based: undefined past the end.
At0(arr, i) == IF i + 1 <= Len(arr) THEN Some(arr[i + 1]) ELSE None

\* Set.prototype.add on an insertion-ordered Set.
SetAdd(set, x) == IF x \in Range(set) THEN set ELSE Append(set, x)

\* ----------------------------------------------------------- getChunkOrigin
ImportType == "import()"

ReasonsLoopAnyType(origins, reasons, j) ==
  origins \o [x \in 1..(Len(reasons) - j + 1) |-> reasons[x + j - 1].userRequest]

RECURSIVE ReasonsLoop(_, _, _)
ReasonsLoop(origins, reasons, j) ==
  IF j > Len(reasons) THEN origins
  ELSE ReasonsLoop(IF reasons[j].type = ImportType
                     THEN SetAdd(origins, reasons[j].userRequest)
                     ELSE origins,
                   reasons, j + 1)

RECURSIVE ModulesLoop(_, _, _)
ModulesLoop(origins, modules, i) ==
  IF i > Len(modules) THEN origins
  ELSE ModulesLoop(ReasonsLoop(origins, modules[i].reasons, 1), modules, i + 1)

FallbackKeyFirstName(names, id) ==
  IF IsSome(At0(names, 0)) THEN StrKey(Get(At0(names, 0))) ELSE NumKey(id)

FallbackKey(names, id) ==
  IF Truthy(At0(names, 0)) THEN StrKey(Get(At0(names, 0))) ELSE NumKey(id)

\* The chunk's modules are Some(list), or None when the stats carry no
\* modules field: modules.length then throws a TypeError.
getChunkOrigin(chunk) ==
  IF ~IsSome(chunk.modules) THEN [threw |-> TRUE, keys |-> <<>>]
  ELSE LET origins == ModulesLoop(<<>>, Get(chunk.modules), 1)
       IN  IF Len(origins) = 0
             THEN [threw |-> FALSE, keys |-> <<FallbackKey(chunk.names, chunk.id)>>]
             ELSE [threw |-> FALSE,
                   keys |-> [i \in 1..Len(origins) |-> StrKey(origins[i])]]

\* ------------------------------------------------------------ collaborators
\* ./utils getFileExtension: the file's extension as written, with its dot
\* ("" when the name has none).
getFileExtension(file) ==
  CASE file = "a.js" -> ".js" [] file = "b.JS" -> ".JS" [] file = "c.css" -> ".css"
    [] OTHER -> ""

\* String.prototype.replace(/^\.+/, '').toLowerCase() on the extensions above.
StripDotsLower(e) ==
  CASE e = ".js" -> "js" [] e = ".JS" -> "js" [] e = ".css" -> "css" [] OTHER -> ""

\* url.resolve(base, file): the public URL, kept as its two parts.
UrlResolve(base, file) == <<base, file>>

\* ./utils computeIntegrity: one digest per algorithm of the asset's source,
\* and an error for an algorithm the hash library does not know.
SupportedAlgorithms == {"sha256", "sha384", "sha512"}
computeIntegrity(algorithms, source) ==
  IF Range(algorithms) \subseteq SupportedAlgorithms
    THEN [threw |-> FALSE, value |-> Some(<<algorithms, source>>)]
    ELSE [threw |-> TRUE, value |-> None]

\* --------------------------------------------------------------- the plugin
VARIABLES
  chunkIn,       \* the chunk handed to getChunkOrigin
  keysOut,       \* what getChunkOrigin returned: Some([threw, keys])
  options,       \* this.options: integrity, integrityAlgorithms, publicPath
  stats,         \* this.stats: Some(compilation.getStats().toJson())
  entrypoints,   \* this.entrypoints: a Set, in insertion order
  assetsByName,  \* this.assetsByName: a Map, as <<[key, value]>> in insertion order
  manifest,      \* this.manifest: None for {}, else Some([entrypoints, origins, assets])
  heap,          \* the siblings arrays: address -> contents
  originAssets,  \* compilation.assets of the emit being handled: file -> asset
  pc,            \* where handleEmit stands
  origins,       \* processAssets' local origins: property name -> chunk ids
  assets,        \* processAssets' local assets: id -> extension -> descriptors
  pi,            \* processAssets' position in assetsByName.forEach
  file,          \* the manifest file on disk: Some([build, json])
  callbacks,     \* how often the emit's callback has been invoked
  calls,         \* the calls handleEmit has made for the emit, in order
  builds         \* how many emit events have been handed to handleEmit

pluginVars == <<options, stats, entrypoints, assetsByName, manifest, heap,
                originAssets, pc, origins, assets, pi, file, callbacks, calls,
                builds>>

originVars == <<chunkIn, keysOut>>

vars == <<pluginVars, originVars>>

EmptyObject == [x \in {} |-> <<>>]

\* obj[k] of a plain object: Some(value) or None (undefined).
Prop(obj, k) == IF k \in DOMAIN obj THEN Some(obj[k]) ELSE None

\* obj[k] = v
PropSet(obj, k, v) == [x \in DOMAIN obj \cup {k} |-> IF x = k THEN v ELSE obj[x]]

\* Map.prototype.set: an existing key keeps its place and takes the new value.
MapSet(map, key, value) ==
  IF \E i \in 1..Len(map) : map[i].key = key
    THEN [i \in 1..Len(map) |->
            IF map[i].key = key THEN [key |-> key, value |-> value] ELSE map[i]]
    ELSE Append(map, [key |-> key, value |-> value])

\* ----------------------------------------------------------- getEntrypoints
RECURSIVE EntryLoop(_, _, _)
EntryLoop(set, entry, i) ==
  IF i > Len(entry) THEN set ELSE EntryLoop(SetAdd(set, entry[i]), entry, i + 1)

\* ---------------------------------------------------------------- getAssets
RECURSIVE KeysLoop(_, _, _, _)
KeysLoop(map, keys, value, j) ==
  IF j > Len(keys) THEN map
  ELSE KeysLoop(MapSet(map, keys[j], value), keys, value, j + 1)

\* The address of the siblings array of the i-th chunk of the b-th stats.
Ref(b, i) == <<b, i>>

\* One pass of the loop over assetsChunk, from chunk i on. `siblings = []`
\* makes a new array when the chunk has none; otherwise the record holds the
\* chunk's own array.
RECURSIVE getAssetsLoop(_, _, _, _, _)
getAssetsLoop(map, hp, chunks, b, i) ==
  IF i > Len(chunks) THEN [threw |-> FALSE, map |-> map, heap |-> hp]
  ELSE LET chunk == chunks[i]
           hp1 == IF IsSome(chunk.siblings) THEN hp ELSE PropSet(hp, Ref(b, i), <<>>)
           res == getChunkOrigin(chunk)
           value == [id |-> chunk.id, files |-> chunk.files, hash |-> chunk.hash,
                     siblings |-> Ref(b, i)]
       IN  IF res.threw THEN [threw |-> TRUE, map |-> map, heap |-> hp]
           ELSE getAssetsLoop(KeysLoop(map, res.keys, value, 1), hp1, chunks, b, i + 1)

\* ------------------------------------------------------------ processAssets
\* Lines 227-232: merge the siblings array into origins[key].
SiblingsLoopNoIncludes(list, siblings, i) == list \o SubSeq(siblings, i, Len(siblings))

RECURSIVE SiblingsLoop(_, _, _)
SiblingsLoop(list, siblings, i) ==
  IF i > Len(siblings) THEN list
  ELSE SiblingsLoop(IF siblings[i] \in Range(list) THEN list
                    ELSE Append(list, siblings[i]),
                    siblings, i + 1)

PushId(siblings, id) == Append(siblings, id)

\* Lines 234-257, from file i on. st = [threw, assets, originAssets].
RECURSIVE FilesLoop(_, _, _, _)
FilesLoop(st, value, opts, i) ==
  IF st.threw \/ i > Len(value.files) THEN st
  ELSE
    LET f == value.files[i]
        currentAsset == Prop(st.originAssets, f)
        ext == StripDotsLower(getFileExtension(f))
        id == NumStr(value.id)
        a1 == IF id \in DOMAIN st.assets THEN st.assets
              ELSE PropSet(st.assets, id, EmptyObject)
        a2 == IF ext \in DOMAIN a1[id] THEN a1
              ELSE PropSet(a1, id, PropSet(a1[id], ext, <<>>))
        compute == IsSome(currentAsset) /\ opts.integrity
                     /\ ~IsSome(Get(currentAsset).integrity)
        computed == computeIntegrity(opts.integrityAlgorithms, f)
        oa == IF compute /\ ~computed.threw
                THEN PropSet(st.originAssets, f, [integrity |-> computed.value])
                ELSE st.originAssets
        descriptor == [file |-> f, hash |-> value.hash,
                       publicPath |-> UrlResolve(opts.publicPath, f),
                       integrity |-> IF IsSome(currentAsset) THEN oa[f].integrity
                                     ELSE None]
    IN  IF (compute /\ computed.threw) \/ ~IsSome(currentAsset)
          \* computeIntegrity throws, or currentAsset[...] reads a property of
          \* undefined (line 255)
          THEN [threw |-> TRUE, assets |-> a2, originAssets |-> oa]
          ELSE FilesLoop([threw |-> FALSE,
                          assets |-> PropSet(a2, id,
                                      PropSet(a2[id], ext, Append(a2[id][ext], descriptor))),
                          originAssets |-> oa],
                         value, opts, i + 1)

\* One callback of assetsByName.forEach (lines 221-258) on the entry `e`.
ProcessEntry(e, hp, orig, ast, oa, opts) ==
  LET key == e.key.s
      value == e.value
      o1 == IF key \in DOMAIN orig THEN orig ELSE PropSet(orig, key, <<>>)
      siblings == PushId(hp[value.siblings], value.id)
      o2 == PropSet(o1, key, SiblingsLoop(o1[key], siblings, 1))
      fl == FilesLoop([threw |-> FALSE, assets |-> ast, originAssets |-> oa],
                      value, opts, 1)
  IN  [threw |-> fl.threw, heap |-> PropSet(hp, value.siblings, siblings),
       origins |-> o2, assets |-> fl.assets, originAssets |-> fl.originAssets]

\* JSON.stringify of a descriptor: a property whose value is undefined is left out.
JsonDescriptor(d) ==
  IF IsSome(d.integrity)
    THEN [file |-> d.file, hash |-> d.hash, publicPath |-> d.publicPath,
          integrity |-> Get(d.integrity)]
    ELSE [file |-> d.file, hash |-> d.hash, publicPath |-> d.publicPath]

JsonStringify(m) ==
  [entrypoints |-> m.entrypoints, origins |-> m.origins,
   assets |-> [id \in DOMAIN m.assets |->
                 [ext \in DOMAIN m.assets[id] |->
                    [i \in 1..Len(m.assets[id][ext]) |->
                       JsonDescriptor(m.assets[id][ext][i])]]]]

\* ------------------------------------------------------------------ actions
Running == pc \in {"getEntrypoints", "getAssets", "processAssets",
                   "writeAssetsFile", "callback"}

Throw ==
  /\ pc' = "threw"
  /\ origins' = EmptyObject
  /\ assets' = EmptyObject
  /\ pi' = 0

LiveRefs == {assetsByName[i].value.siblings : i \in 1..Len(assetsByName)}

\* handleEmit, lines 197-201: the stats of the compilation are taken and the
\* public path is read. The arrays of the previous stats that no record
\* holds are gone with them.
HandleEmit(c) ==
  /\ ~Running
  /\ builds' = builds + 1
  /\ stats' = Some([entrypoints |-> c.entrypoints, chunks |-> c.chunks])
  /\ options' = [options EXCEPT
                   !.publicPath = IF Truthy(c.publicPath) THEN Get(c.publicPath) ELSE ""]
  /\ originAssets' = [f \in c.assets |-> [integrity |-> None]]
  /\ heap' = [r \in (DOMAIN heap \cap LiveRefs)
                     \cup {Ref(builds + 1, i) : i \in {j \in 1..Len(c.chunks) :
                                                      IsSome(c.chunks[j].siblings)}}
               |-> IF r[1] = builds + 1 THEN Get(c.chunks[r[2]].siblings) ELSE heap[r]]
  /\ callbacks' = 0
  /\ calls' = <<"getEntrypoints">>
  /\ pc' = "getEntrypoints"
  /\ UNCHANGED <<entrypoints, assetsByName, manifest, origins, assets, pi, file>>
  /\ UNCHANGED originVars

\* Line 202. Object.keys(undefined) throws.
GetEntrypoints ==
  /\ pc = "getEntrypoints"
  /\ IF IsSome(Get(stats).entrypoints)
       THEN /\ entrypoints' = EntryLoop(entrypoints, Get(Get(stats).entrypoints), 1)
            /\ pc' = "getAssets"
            /\ calls' = Append(calls, "getAssets")
            /\ UNCHANGED <<origins, assets, pi>>
       ELSE /\ Throw
            /\ UNCHANGED <<entrypoints, calls>>
  /\ UNCHANGED <<options, stats, assetsByName, manifest, heap, originAssets, file,
                 callbacks, builds>>
  /\ UNCHANGED originVars

\* Line 203.
GetAssets ==
  /\ pc = "getAssets"
  /\ LET res == getAssetsLoop(assetsByName, heap, Get(stats).chunks, builds, 1)
     IN  /\ assetsByName' = res.map
         /\ heap' = res.heap
         /\ IF res.threw THEN Throw /\ UNCHANGED calls
            ELSE /\ pc' = "processAssets"
                 /\ calls' = Append(calls, "processAssets")
                 /\ origins' = EmptyObject
                 /\ assets' = EmptyObject
                 /\ pi' = 0
  /\ UNCHANGED <<options, stats, entrypoints, manifest, originAssets, file,
                 callbacks, builds>>
  /\ UNCHANGED originVars

\* Line 204, one entry of assetsByName at a time.
ProcessAssetsStep ==
  /\ pc = "processAssets"
  /\ pi < Len(assetsByName)
  /\ LET res == ProcessEntry(assetsByName[pi + 1], heap, origins, assets,
                             originAssets, options)
     IN  /\ heap' = res.heap
         /\ originAssets' = res.originAssets
         /\ IF res.threw THEN Throw
            ELSE /\ origins' = res.origins
                 /\ assets' = res.assets
                 /\ pi' = pi + 1
                 /\ pc' = pc
  /\ UNCHANGED <<options, stats, entrypoints, assetsByName, manifest, file,
                 callbacks, calls, builds>>
  /\ UNCHANGED originVars

\* Lines 261-265.
ProcessAssetsEnd ==
  /\ pc = "processAssets"
  /\ pi = Len(assetsByName)
  /\ manifest' = Some([entrypoints |-> entrypoints, origins |-> origins,
                       assets |-> assets])
  /\ pc' = "writeAssetsFile"
  /\ calls' = Append(calls, "writeAssetsFile")
  /\ origins' = EmptyObject
  /\ assets' = EmptyObject
  /\ pi' = 0
  /\ UNCHANGED <<options, stats, entrypoints, assetsByName, heap, originAssets, file,
                 callbacks, builds>>
  /\ UNCHANGED originVars

WriteAssetsFileSwallow ==
  /\ pc = "writeAssetsFile"
  /\ \/ file' = Some([build |-> builds, json |-> JsonStringify(Get(manifest))])
     \/ UNCHANGED file
  /\ pc' = "callback"
  /\ calls' = Append(calls, "callback")
  /\ UNCHANGED <<options, stats, entrypoints, assetsByName, manifest, heap,
                 originAssets, origins, assets, pi, callbacks, builds>>
  /\ UNCHANGED originVars

\* Line 205: the file is written, or the file system fails and the error
\* leaves handleEmit.
WriteAssetsFile ==
  /\ pc = "writeAssetsFile"
  /\ \/ /\ file' = Some([build |-> builds, json |-> JsonStringify(Get(manifest))])
        /\ pc' = "callback"
        /\ calls' = Append(calls, "callback")
        /\ UNCHANGED <<origins, assets, pi>>
     \/ /\ Throw
        /\ UNCHANGED <<file, calls>>
  /\ UNCHANGED <<options, stats, entrypoints, assetsByName, manifest, heap,
                 originAssets, callbacks, builds>>
  /\ UNCHANGED originVars

\* Line 207.
Callback ==
  /\ pc = "callback"
  /\ callbacks' = callbacks + 1
  /\ pc' = "returned"
  /\ UNCHANGED <<options, stats, entrypoints, assetsByName, manifest, heap,
                 originAssets, origins, assets, pi, file, calls, builds>>
  /\ UNCHANGED originVars

\* ------------------------------------------------------------- constructor
\* Lines 39-44 (filename and integrityPropertyName are left at their defaults).
defaultOptions ==
  [integrity |-> FALSE, integrityAlgorithms |-> <<"sha256", "sha384", "sha512">>,
   publicPath |-> ""]

\* { ...defaultOptions, ...options } for the options a configuration gives.
Options ==
  {[defaultOptions EXCEPT !.integrity = i, !.integrityAlgorithms = a] :
     i \in BOOLEAN, a \in {defaultOptions.integrityAlgorithms, <<"sha256", "md0">>}}

\* Lines 56-63.
Constructed ==
  /\ options \in Options
  /\ stats = None
  /\ entrypoints = <<>>
  /\ assetsByName = <<>>
  /\ manifest = None
  /\ heap = EmptyObject
  /\ originAssets = EmptyObject
  /\ pc = "constructed"
  /\ origins = EmptyObject
  /\ assets = EmptyObject
  /\ pi = 0
  /\ file = None
  /\ callbacks = 0
  /\ calls = <<>>
  /\ builds = 0

\* ----------------------------------------- inputs of the origin resolver
ReasonSet == {[type |-> ImportType, userRequest |-> "./A"],
              [type |-> ImportType, userRequest |-> "./B"],
              [type |-> "cjs require", userRequest |-> "./A"]}
ModuleSet == {[reasons |-> r] : r \in SeqsUpTo(ReasonSet, MaxReasons)}
NameLists == {<<>>, <<"">>, <<"main">>, <<"", "main">>, <<"main", "">>}
OriginChunks ==
  {[id |-> i, names |-> n, modules |-> Some(m)] :
     i \in 0..MaxId, n \in NameLists, m \in SeqsUpTo(ModuleSet, MaxModules)}

\* getChunkOrigin on its own: any chunk of OriginChunks is resolved once.
InitOrigin ==
  /\ chunkIn \in OriginChunks
  /\ keysOut = None
  /\ Constructed
  /\ options = defaultOptions

ResolveOrigin ==
  /\ keysOut = None
  /\ keysOut' = Some(getChunkOrigin(chunkIn))
  /\ UNCHANGED chunkIn
  /\ UNCHANGED pluginVars

NextOrigin == ResolveOrigin

SpecOrigin == InitOrigin /\ [][NextOrigin]_vars

\* --------------------------------------------------- inputs of the plugin
ImportA == [type |-> ImportType, userRequest |-> "./A"]
ImportB == [type |-> ImportType, userRequest |-> "./B"]

\* names and modules of a chunk: unnamed or named "1"; no module, one
\* dynamic import, two dynamic imports; or stats without the modules field.
ChunkOrigins ==
  {[names |-> n, modules |-> Some(m)] :
     n \in {<<>>, <<"1">>},
     m \in {<<>>, <<[reasons |-> <<ImportA>>]>>,
            <<[reasons |-> <<ImportA, ImportB>>]>>}}
  \cup {[names |-> <<>>, modules |-> None]}

FileLists == {<<>>, <<"a.js", "c.css", "b.JS">>}

\* Object.keys(stats.entrypoints), or None for stats without entrypoints.
EntryTables == {None, Some(<<"main">>)}

\* The siblings of a chunk of an n-chunk compilation: absent, or ids of the
\* compilation's chunks (0 .. n-1).
SiblingLists(n, m) == {None} \cup {Some(s) : s \in SeqsUpTo(0..(n - 1), m)}

\* A chunk of an n-chunk compilation, but for its id.
ChunkShapes(n, O, F, m) == [origin : O, files : F, siblings : SiblingLists(n, m)]

\* stats.chunks: the i-th chunk has id i - 1.
ChunksOf(shapes) ==
  [i \in 1..Len(shapes) |->
     [id |-> i - 1, names |-> shapes[i].origin.names,
      modules |-> shapes[i].origin.modules, files |-> shapes[i].files,
      siblings |-> shapes[i].siblings, hash |-> "h1"]]

AllFiles(chunks) == UNION {Range(chunks[i].files) : i \in 1..Len(chunks)}

\* compilation.assets holds every file of the chunks, or all but one.
AssetTables(chunks) ==
  {AllFiles(chunks)} \cup {AllFiles(chunks) \ {f} : f \in AllFiles(chunks)}

PublicPaths == {None, Some("/")}

\* An emit event with any compilation over the pools O (names and modules),
\* F (files), E (entry points) and siblings of at most m ids.
EmitAny(O, F, E, m) ==
  \E n \in 0..MaxChunks : \E shapes \in [1..n -> ChunkShapes(n, O, F, m)] :
    \E e \in E : \E t \in AssetTables(ChunksOf(shapes)) : \E pp \in PublicPaths :
      HandleEmit([entrypoints |-> e, chunks |-> ChunksOf(shapes), assets |-> t,
                  publicPath |-> pp])

Init ==
  /\ Constructed
  /\ chunkIn = [id |-> 0, names |-> <<>>, modules |-> Some(<<>>)]
  /\ keysOut = None

\* One compilation (`webpack`, no watching): the plugin is constructed,
\* applied, and handles the one emit event.
Emit ==
  /\ pc = "constructed"
  /\ EmitAny(ChunkOrigins, FileLists, EntryTables, MaxSiblings)

Next ==
  \/ Emit
  \/ GetEntrypoints
  \/ GetAssets
  \/ ProcessAssetsStep
  \/ ProcessAssetsEnd
  \/ WriteAssetsFile
  \/ Callback

Spec == Init /\ [][Next]_vars

\* Watch mode: the same plugin instance handles the emit event of each of
\* MaxBuilds successive compilations, over smaller compilations.
WatchOrigins ==
  {[names |-> <<>>, modules |-> Some(<<>>)],
   [names |-> <<"1">>, modules |-> Some(<<[reasons |-> <<ImportA>>]>>)],
   [names |-> <<>>, modules |-> None]}

WatchFileLists == {<<"a.js">>}

WatchEntryTables == {None, Some(<<"main">>), Some(<<"admin">>)}

EmitWatch ==
  /\ builds < MaxBuilds
  /\ EmitAny(WatchOrigins, WatchFileLists, WatchEntryTables, MaxWatchSiblings)

NextWatch ==
  \/ EmitWatch
  \/ GetEntrypoints
  \/ GetAssets
  \/ ProcessAssetsStep
  \/ ProcessAssetsEnd
  \/ WriteAssetsFile
  \/ Callback

SpecWatch == Init /\ [][NextWatch]_vars

\* ================================================================= claims
FirstIdx(s) == {i \in 1..Len(s) : \A j \in 1..(i - 1) : s[j] # s[i]}

\* s without the later occurrences of its elements.
FirstSeen(s) ==
  [n \in 1..Cardinality(FirstIdx(s)) |->
     s[CHOOSE i \in FirstIdx(s) : Cardinality({j \in FirstIdx(s) : j <= i}) = n]]

IsPrefix(a, b) == Len(a) <= Len(b) /\ a = SubSeq(b, 1, Len(a))

\* The manifest of the emit being handled has been assembled.
Post == pc \in {"writeAssetsFile", "callback", "returned"}

CurChunks == Get(stats).chunks

DeclaredSiblings(c) == IF IsSome(c.siblings) THEN Get(c.siblings) ELSE <<>>

\* The property names under which getAssets files the chunk.
KeyNames(c) == {getChunkOrigin(c).keys[j].s : j \in 1..Len(getChunkOrigin(c).keys)}

\* The siblings arrays, as they are now, of the first p entries of
\* assetsByName whose key reads k, one after the other.
RECURSIVE MergedArrays(_, _, _)
MergedArrays(k, p, i) ==
  IF i > p THEN <<>>
  ELSE (IF assetsByName[i].key.s = k THEN heap[assetsByName[i].value.siblings]
        ELSE <<>>) \o MergedArrays(k, p, i + 1)

OriginsAreFirstSeen(orig, p) ==
  /\ DOMAIN orig = {assetsByName[i].key.s : i \in 1..p}
  /\ \A k \in DOMAIN orig :
       /\ NoDup(orig[k])
       /\ orig[k] = FirstSeen(MergedArrays(k, p, 1))

\* C1: at every point of the aggregation and in the manifest, origins[k] has
\* no chunk id twice and lists the ids in the order in which they were first
\* merged: it is the siblings arrays merged so far into k (each with its
\* chunk's id pushed), without the later occurrences.
C1_OriginsDedupFirstSeen ==
  /\ pc = "processAssets" => OriginsAreFirstSeen(origins, pi)
  /\ Post => OriginsAreFirstSeen(Get(manifest).origins, Len(assetsByName))

\* C1's case: two entries have been merged into the same origins key, and a
\* merged array repeats ids (it held the chunk's own id, or an id twice).
C1_Witness ==
  /\ pc = "processAssets"
  /\ \E i, j \in 1..pi :
       /\ i < j
       /\ assetsByName[i].key.s = assetsByName[j].key.s
       /\ assetsByName[i].value.id # assetsByName[j].value.id
       /\ LET arr == heap[assetsByName[j].value.siblings]
          IN  Cardinality(Range(arr)) + 2 <= Len(arr)
       /\ Len(origins[assetsByName[i].key.s]) >= 2

\* C2: every chunk id listed in some origins[key] of the manifest is a key
\* of assets, unless that chunk has no files.
C2_OriginIdsHaveAssets ==
  Post =>
    \A k \in DOMAIN Get(manifest).origins :
      \A n \in Range(Get(manifest).origins[k]) :
        (\E i \in 1..Len(CurChunks) : CurChunks[i].id = n /\ CurChunks[i].files # <<>>)
          => NumStr(n) \in DOMAIN Get(manifest).assets

\* The files of the entry that compilation.assets does not hold.
Missing(e) == {f \in Range(e.value.files) : f \notin DOMAIN originAssets}

\* C3: a callback of processAssets on a record with a file that is absent
\* from compilation.assets does not fail (integrity on or off, algorithms
\* supported): the aggregation goes on and the file's descriptor is appended
\* with no integrity.
C3_MissingAssetNonFatal ==
  [][(/\ pc = "processAssets"
      /\ pi < Len(assetsByName)
      /\ Missing(assetsByName[pi + 1]) # {}
      /\ Range(options.integrityAlgorithms) \subseteq SupportedAlgorithms)
     => /\ pc' = "processAssets"
        /\ \A f \in Missing(assetsByName[pi + 1]) :
             LET id == NumStr(assetsByName[pi + 1].value.id)
                 ext == StripDotsLower(getFileExtension(f))
             IN  /\ id \in DOMAIN assets'
                 /\ ext \in DOMAIN assets'[id]
                 /\ \E d \in Range(assets'[id][ext]) :
                      d.file = f /\ d.integrity = None]_vars

\* C4: the manifest of an emit holds nothing but what the emit's own
\* compilation gives: its entry names, the origin keys its chunks resolve
\* to, the ids of its chunks.
C4_ManifestOfThisBuildOnly ==
  Post =>
    /\ Range(Get(manifest).entrypoints) \subseteq Range(Get(Get(stats).entrypoints))
    /\ DOMAIN Get(manifest).origins
         \subseteq UNION {KeyNames(CurChunks[i]) : i \in 1..Len(CurChunks)}
    /\ DOMAIN Get(manifest).assets
         \subseteq {NumStr(CurChunks[i].id) : i \in 1..Len(CurChunks)}

\* C5: assets[id] holds one descriptor per file of the chunk, and each
\* extension's list follows the order of the chunk's files.
C5_OneDescriptorPerFile ==
  Post =>
    \A i \in 1..Len(CurChunks) :
      LET c == CurChunks[i]
          id == NumStr(c.id)
      IN  id \in DOMAIN Get(manifest).assets =>
            LET a == Get(manifest).assets[id]
            IN  /\ DOMAIN a = {StripDotsLower(getFileExtension(f)) : f \in Range(c.files)}
                /\ \A ext \in DOMAIN a :
                     LET HasExt(f) == StripDotsLower(getFileExtension(f)) = ext
                     IN  [j \in 1..Len(a[ext]) |-> a[ext][j].file]
                           = SelectSeq(c.files, HasExt)

\* The userRequests of the chunk's reasons of type import().
ImportRequestsOf(chunk) ==
  UNION {{Get(chunk.modules)[i].reasons[j].userRequest :
            j \in {x \in 1..Len(Get(chunk.modules)[i].reasons) :
                     Get(chunk.modules)[i].reasons[x].type = ImportType}} :
           i \in 1..Len(Get(chunk.modules))}

\* C6: for a chunk with a reason of type import(), getChunkOrigin returns,
\* without duplicates, exactly the userRequests of the reasons of that type.
C6_OriginKeysAreImportRequests ==
  (IsSome(keysOut) /\ ImportRequestsOf(chunkIn) # {}) =>
    /\ ~Get(keysOut).threw
    /\ NoDup(Get(keysOut).keys)
    /\ Range(Get(keysOut).keys) = {StrKey(u) : u \in ImportRequestsOf(chunkIn)}

\* C6's case: two modules give the same request, beside a reason that is
\* no dynamic import, in a named chunk.
C6_Witness ==
  /\ IsSome(keysOut)
  /\ chunkIn.names = <<"main", "">>
  /\ Len(Get(chunkIn.modules)) = 2
  /\ \A i \in 1..2 : Len(Get(chunkIn.modules)[i].reasons) = 2
  /\ ImportRequestsOf(chunkIn) = {"./A"}
  /\ Get(keysOut).keys = <<StrKey("./A")>>

\* C7 as stated: with no reason of type import(), the one key is names[0]
\* whenever names is not empty, and the id otherwise.
C7_FallbackFirstNameOrId ==
  (IsSome(keysOut) /\ ImportRequestsOf(chunkIn) = {}) =>
    Get(keysOut) = [threw |-> FALSE,
                    keys |-> <<IF chunkIn.names # <<>> THEN StrKey(chunkIn.names[1])
                               ELSE NumKey(chunkIn.id)>>]

\* C7 amended: the one key is names[0] when names is not empty and names[0]
\* is not the empty string, and the id otherwise.
C7_FallbackNonEmptyNameOrId ==
  (IsSome(keysOut) /\ ImportRequestsOf(chunkIn) = {}) =>
    Get(keysOut) = [threw |-> FALSE,
                    keys |-> <<IF chunkIn.names # <<>> /\ chunkIn.names[1] # ""
                                 THEN StrKey(chunkIn.names[1])
                               ELSE NumKey(chunkIn.id)>>]

\* C7's case: a chunk without dynamic import whose first name is the empty
\* string and whose id is 0 resolves to the number 0.
C7_Witness ==
  /\ IsSome(keysOut)
  /\ ImportRequestsOf(chunkIn) = {}
  /\ Len(Get(chunkIn.modules)) > 0
  /\ chunkIn.names = <<"", "main">>
  /\ chunkIn.id = 0
  /\ Get(keysOut).keys = <<NumKey(0)>>

\* C8: origins[k] is the siblings the last chunk resolving to k declares,
\* then its id, without the later occurrences: of two chunks on one key the
\* later wins.
C8_LastChunkWins ==
  Post =>
    \A k \in DOMAIN Get(manifest).origins :
      LET at == {i \in 1..Len(CurChunks) : k \in KeyNames(CurChunks[i])}
      IN  /\ at # {}
          /\ LET c == CurChunks[CHOOSE i \in at : \A j \in at : j <= i]
             IN  Get(manifest).origins[k]
                   = FirstSeen(Append(DeclaredSiblings(c), c.id))

\* The records of assetsByName, with the contents of their siblings arrays.
RecordsView ==
  [i \in 1..Len(assetsByName) |->
     [key |-> assetsByName[i].key, id |-> assetsByName[i].value.id,
      files |-> assetsByName[i].value.files, hash |-> assetsByName[i].value.hash,
      siblings |-> heap[assetsByName[i].value.siblings]]]

\* C9: processAssets leaves every record of assetsByName as getAssets
\* stored it, the contents of its siblings array included.
C9_RecordsImmutable ==
  [][pc = "processAssets" => RecordsView' = RecordsView]_vars

HandleEmitOrder ==
  <<"getEntrypoints", "getAssets", "processAssets", "writeAssetsFile", "callback">>

WrittenThisBuild == IsSome(file) /\ Get(file).build = builds

\* C10: handleEmit calls getEntrypoints, getAssets, processAssets and
\* writeAssetsFile in this order, then the callback, once, and only with
\* the manifest of this emit on disk; when a step fails the callback is not
\* invoked and no file is written for the emit.
C10_EmitOrderAndFailure ==
  /\ IsPrefix(calls, HandleEmitOrder)
  /\ Running => calls[Len(calls)] = pc
  /\ callbacks \in {0, 1}
  /\ callbacks = 1 <=> pc = "returned"
  /\ pc \in {"callback", "returned"} =>
       /\ WrittenThisBuild
       /\ Get(file).json = JsonStringify(Get(manifest))
  /\ pc = "returned" => calls = HandleEmitOrder
  /\ pc \in {"getEntrypoints", "getAssets", "processAssets", "writeAssetsFile", "threw"}
       => ~WrittenThisBuild
  /\ pc = "threw" => "callback" \notin Range(calls)

\* C10's case: the second emit fails in the write, after a first emit that
\* wrote its manifest.
C10_Witness ==
  /\ pc = "threw"
  /\ builds = 2
  /\ IsSome(file)
  /\ calls = SubSeq(HandleEmitOrder, 1, 4)
  /\ callbacks = 0
====
